---------------------------- MODULE Spec2Model ----------------------------
(***************************************************************************)
(* A model of the PWMP message codec (crate pwmp-msg).                     *)
(*                                                                         *)
(* The crate holds two codecs for the same data model:                     *)
(*   - the free functions of serde/mod.rs (serialize, serialize_request,   *)
(*     serialize_response, deserialize_request, deserialize_response,      *)
(*     deserialize), which work on Option and may panic;                   *)
(*   - the Serializable / Deserializable trait implementations of          *)
(*     serde/serializer.rs and serde/deserializer.rs, which work on        *)
(*     Result<_, DeserializeError>.                                        *)
(*                                                                         *)
(* Representation of values:                                               *)
(*   - a byte is a number in 0..255, a byte string a sequence of bytes;    *)
(*   - u8 is a number, i8 a number in -128..127, u16 a number in 0..65535; *)
(*   - u32, usize and f32 are kept as their base-256 digits, least         *)
(*     significant first (f32: the digits of its bit pattern), because     *)
(*     their values exceed the integers of the model checker;              *)
(*   - a byte cursor (Iterator<Item = u8>) is the sequence of bytes that   *)
(*     are still unread.                                                   *)
(***************************************************************************)
EXTENDS Naturals, Integers, Sequences, FiniteSets, TLC

VARIABLES
    target,     \* the build target: byte order and pointer width
    unhandled,  \* what a free decoder does with a helper's Err (see Unhandled)
    value,      \* the Message / Request / Response handed to an encoder
    encoder,    \* the encoder that ran last
    buffer,     \* what the encoder returned: Done(bytes) or Panic
    input,      \* the bytes handed to a decoder
    channel,    \* how input was made from the buffer
    decoder,    \* the decoder that ran last
    result,     \* what the decoder returned
    pc          \* position in the encode / transmit / decode cycle

vars == <<target, unhandled, value, encoder, buffer, input, channel, decoder,
          result, pc>>

(***************************************************************************)
(* Bounds of the model.                                                    *)
(***************************************************************************)
\* most bytes appended behind an encoding before it is decoded
MaxExtra == 2
\* longest byte string handed to a decoder that no encoder produced
MaxRawLen == 2
\* longest firmware blob of a Response::UpdatePart
MaxBlobLen == 2

(***************************************************************************)
(* Generic helpers.                                                        *)
(***************************************************************************)
Min(a, b) == IF a <= b THEN a ELSE b

Reverse(s) == [i \in 1..Len(s) |-> s[Len(s) + 1 - i]]

Take(s, n) == SubSeq(s, 1, Min(n, Len(s)))

Drop(s, n) == SubSeq(s, Min(n, Len(s)) + 1, Len(s))

\* all sequences over S of length 0..n
RECURSIVE SeqsUpTo(_, _)
SeqsUpTo(S, n) ==
    IF n = 0 THEN {<<>>}
    ELSE LET shorter == SeqsUpTo(S, n - 1)
         IN  shorter \cup {Append(s, x) : s \in {t \in shorter : Len(t) = n - 1}, x \in S}

(***************************************************************************)
(* Option<T>, Result<T, E> and the outcomes of a call.                     *)
(***************************************************************************)
None == [tag |-> "None"]

Some(v) == [tag |-> "Some", val |-> v]

\* Ok(v) of a decoding step, with the cursor it leaves
Ok(v, rest) == [tag |-> "Ok", val |-> v, rest |-> rest]

Err(e) == [tag |-> "Err", err |-> e]

\* the call did not return: a Rust panic (index out of range, unwrap on None)
Panic == [tag |-> "Panic"]

\* an encoder returned with these bytes appended to the buffer
Done(bytes) == [tag |-> "Done", bytes |-> bytes]

NoValue == [tag |-> "NoValue"]

(***************************************************************************)
(* Build targets.  to_ne_bytes / from_ne_bytes use the target's byte       *)
(* order; usize has the target's pointer width.                            *)
(***************************************************************************)
Targets ==
    {[endian |-> e, usize_bytes |-> w] : e \in {"little", "big"}, w \in {4, 8}}

\* the memory image of an integer given by its digits, least significant first
to_ne_bytes(digits) == IF target.endian = "little" THEN digits ELSE Reverse(digits)

\* the digits, least significant first, of the integer with this memory image
from_ne_bytes(bytes) == IF target.endian = "little" THEN bytes ELSE Reverse(bytes)

\* the n base-256 digits of a number v < 2^24
Digits(v, n) == [i \in 1..n |-> IF i > 3 THEN 0 ELSE (v \div (256 ^ (i - 1))) % 256]

\* the usize with the small value n
UsizeOf(n) == Digits(n, target.usize_bytes)

\* min(the value of the usize u, cap), for a small cap; never overflows
UsizeCapped(u, cap) ==
    IF \E i \in 3..Len(u) : u[i] # 0 THEN cap
    ELSE Min(u[1] + 256 * u[2], cap)

u16_to_ne_bytes(v) == to_ne_bytes(Digits(v, 2))

u16_from_ne_bytes(bytes) ==
    LET d == from_ne_bytes(bytes) IN d[1] + 256 * d[2]

\* i8::to_ne_bytes: the two's complement byte
i8_to_ne_bytes(v) == <<(v + 256) % 256>>

\* i8::from_ne_bytes
i8_from_ne_bytes(bytes) == IF bytes[1] >= 128 THEN bytes[1] - 256 ELSE bytes[1]

\* u8::from(bool)
u8_from_bool(b) == IF b THEN 1 ELSE 0

(***************************************************************************)
(* serde/consts.rs                                                         *)
(***************************************************************************)
OPTIONAL_EMPTY == 0
\* OPTIONAL_EXIST with the value of OPTIONAL_EMPTY
OPTIONAL_EXIST_as_empty == OPTIONAL_EMPTY
OPTIONAL_EXIST == 1
MSG_KIND_REQUEST == 4
MSG_KIND_RESPONSE == 6
REQ_KIND_PING == 10
REQ_KIND_HANDSHAKE == 11
REQ_KIND_POST_RESULTS == 12
REQ_KIND_POST_STATS == 13
REQ_KIND_SEND_NOTIFICATION == 14
REQ_KIND_GET_SETTINGS == 15
REQ_KIND_UPDATE_CHECK == 16
REQ_KIND_NEXT_UPDATE_CHUNK == 17
REQ_KIND_REPORT_FWU == 18
REQ_KIND_BYE == 19
RES_KIND_PONG == 40
RES_KIND_OK == 41
RES_KIND_REJECT == 42
RES_KIND_INVALID_REQ == 43
RES_KIND_RLE == 44
RES_KIND_ISE == 45
RES_KIND_STALLING == 46
RES_KIND_FW_UTD == 47
RES_KIND_FW_UAVAIL == 48
RES_KIND_FW_UPART == 49
RES_KIND_FW_UEND == 50
RES_KIND_SETTINGS == 51

(***************************************************************************)
(* serde/error.rs: the variants of the Deserialize error.                  *)
(***************************************************************************)
ExpectedOneMoreByte == [kind |-> "ExpectedOneMoreByte"]

\* expected and got are usize values
ExpectedMoreBytes(expected, got) ==
    [kind |-> "ExpectedMoreBytes", expected |-> expected, got |-> got]

IllegalBoolean(b) == [kind |-> "IllegalBoolean", byte |-> b]

IllegalMessageType(b) == [kind |-> "IllegalMessageType", byte |-> b]

IllegalRequestType(b) == [kind |-> "IllegalRequestType", byte |-> b]

IllegalResponseType(b) == [kind |-> "IllegalResponseType", byte |-> b]

\* wraps the FromUtf8Error of String::from_utf8
IllegalUtf8String == [kind |-> "IllegalUtf8String"]

ExtraDataLeft(n) == [kind |-> "ExtraDataLeft", count |-> n]

(***************************************************************************)
(* The data model.                                                         *)
(***************************************************************************)
\* Mac::new: a hardware address of six octets
Mac_new(a, b, c, d, e, f) == <<a, b, c, d, e, f>>

\* mac[i], with the index counted from 0 as in the source: a value or a panic
Mac_index(mac, i) == IF i < Len(mac) THEN Some(mac[i + 1]) ELSE Panic

\* Version::new
Version_new(major, middle, minor) ==
    [major |-> major, middle |-> middle, minor |-> minor]

\* Version::from of the three decoded bytes
Version_from(values) == Version_new(values[1], values[2], values[3])

NodeSettings(battery_ignore, ota, sleep_time, sbop, mute_notifications) ==
    [battery_ignore |-> battery_ignore, ota |-> ota, sleep_time |-> sleep_time,
     sbop |-> sbop, mute_notifications |-> mute_notifications]

\* NodeSettings::const_default
const_default == NodeSettings(FALSE, TRUE, 60, TRUE, FALSE)

\* the variants of Request
Ping == [type |-> "Ping"]
Handshake(mac) == [type |-> "Handshake", mac |-> mac]
PostResults(temperature, humidity, air_pressure) ==
    [type |-> "PostResults", temperature |-> temperature, humidity |-> humidity,
     air_pressure |-> air_pressure]
PostStats(battery, wifi_ssid, wifi_rssi) ==
    [type |-> "PostStats", battery |-> battery, wifi_ssid |-> wifi_ssid,
     wifi_rssi |-> wifi_rssi]
SendNotification(content) == [type |-> "SendNotification", content |-> content]
GetSettings == [type |-> "GetSettings"]
UpdateCheck(version) == [type |-> "UpdateCheck", version |-> version]
NextUpdateChunk(size) == [type |-> "NextUpdateChunk", size |-> size]
ReportFirmwareUpdate(good) == [type |-> "ReportFirmwareUpdate", good |-> good]
Bye == [type |-> "Bye"]

\* the variants of Response
Pong == [type |-> "Pong"]
ROk == [type |-> "Ok"]
Reject == [type |-> "Reject"]
InvalidRequest == [type |-> "InvalidRequest"]
RateLimitExceeded == [type |-> "RateLimitExceeded"]
InternalServerError == [type |-> "InternalServerError"]
Stalling == [type |-> "Stalling"]
FirmwareUpToDate == [type |-> "FirmwareUpToDate"]
UpdateAvailable(version) == [type |-> "UpdateAvailable", version |-> version]
UpdatePart(blob) == [type |-> "UpdatePart", blob |-> blob]
UpdateEnd == [type |-> "UpdateEnd"]
Settings(settings) == [type |-> "Settings", settings |-> settings]

RequestTypes ==
    {"Ping", "Handshake", "PostResults", "PostStats", "SendNotification",
     "GetSettings", "UpdateCheck", "NextUpdateChunk", "ReportFirmwareUpdate", "Bye"}

ResponseTypes ==
    {"Pong", "Ok", "Reject", "InvalidRequest", "RateLimitExceeded",
     "InternalServerError", "Stalling", "FirmwareUpToDate", "UpdateAvailable",
     "UpdatePart", "UpdateEnd", "Settings"}

\* MessageContent::Request / MessageContent::Response
ContentRequest(req) == [kind |-> "Request", body |-> req]
ContentResponse(res) == [kind |-> "Response", body |-> res]

\* Message::new_request
new_request(req, id) == [id |-> id, content |-> ContentRequest(req)]

\* Message::new_response
new_response(res, id) == [id |-> id, content |-> ContentResponse(res)]

\* Message::request
Message_request(msg) ==
    IF msg.content.kind = "Request" THEN Some(msg.content.body) ELSE None

\* a plausible slip: the body is returned whatever the content is
Message_response_any_body(msg) == Some(msg.content.body)

\* Message::response
Message_response(msg) ==
    IF msg.content.kind = "Response" THEN Some(msg.content.body) ELSE None

\* Message::take_request
Message_take_request(msg) ==
    IF msg.content.kind = "Request" THEN Some(msg.content.body) ELSE None

\* Message::take_response
Message_take_response(msg) ==
    IF msg.content.kind = "Response" THEN Some(msg.content.body) ELSE None

\* Message::id
Message_id(msg) == msg.id

\* Request::type_id with the discriminant of Ping given to Bye as well
Request_type_id_bye_as_ping(req) ==
    CASE req.type = "Ping" -> REQ_KIND_PING
      [] req.type = "Handshake" -> REQ_KIND_HANDSHAKE
      [] req.type = "PostResults" -> REQ_KIND_POST_RESULTS
      [] req.type = "PostStats" -> REQ_KIND_POST_STATS
      [] req.type = "SendNotification" -> REQ_KIND_SEND_NOTIFICATION
      [] req.type = "GetSettings" -> REQ_KIND_GET_SETTINGS
      [] req.type = "UpdateCheck" -> REQ_KIND_UPDATE_CHECK
      [] req.type = "NextUpdateChunk" -> REQ_KIND_NEXT_UPDATE_CHUNK
      [] req.type = "ReportFirmwareUpdate" -> REQ_KIND_REPORT_FWU
      [] req.type = "Bye" -> REQ_KIND_PING

\* Request::type_id
Request_type_id(req) ==
    CASE req.type = "Ping" -> REQ_KIND_PING
      [] req.type = "Handshake" -> REQ_KIND_HANDSHAKE
      [] req.type = "PostResults" -> REQ_KIND_POST_RESULTS
      [] req.type = "PostStats" -> REQ_KIND_POST_STATS
      [] req.type = "SendNotification" -> REQ_KIND_SEND_NOTIFICATION
      [] req.type = "GetSettings" -> REQ_KIND_GET_SETTINGS
      [] req.type = "UpdateCheck" -> REQ_KIND_UPDATE_CHECK
      [] req.type = "NextUpdateChunk" -> REQ_KIND_NEXT_UPDATE_CHUNK
      [] req.type = "ReportFirmwareUpdate" -> REQ_KIND_REPORT_FWU
      [] req.type = "Bye" -> REQ_KIND_BYE

\* Response::type_id
Response_type_id(res) ==
    CASE res.type = "Pong" -> RES_KIND_PONG
      [] res.type = "Ok" -> RES_KIND_OK
      [] res.type = "Reject" -> RES_KIND_REJECT
      [] res.type = "InvalidRequest" -> RES_KIND_INVALID_REQ
      [] res.type = "RateLimitExceeded" -> RES_KIND_RLE
      [] res.type = "InternalServerError" -> RES_KIND_ISE
      [] res.type = "Stalling" -> RES_KIND_STALLING
      [] res.type = "FirmwareUpToDate" -> RES_KIND_FW_UTD
      [] res.type = "UpdateAvailable" -> RES_KIND_FW_UAVAIL
      [] res.type = "UpdatePart" -> RES_KIND_FW_UPART
      [] res.type = "UpdateEnd" -> RES_KIND_FW_UEND
      [] res.type = "Settings" -> RES_KIND_SETTINGS

\* Message::type_id: the message-kind byte of the envelope
Message_type_id(msg) ==
    IF msg.content.kind = "Request" THEN MSG_KIND_REQUEST ELSE MSG_KIND_RESPONSE

(***************************************************************************)
(* The `?` operator on the Result of a decoding step: go on with the value *)
(* and the cursor after it, or return the failure.                         *)
(***************************************************************************)
Try(r, F(_, _)) == IF r.tag = "Ok" THEN F(r.val, r.rest) ELSE r

\* r? followed by Ok(f(value))
MapOk(r, F(_)) == IF r.tag = "Ok" THEN Ok(F(r.val), r.rest) ELSE r

(***************************************************************************)
(* String::from_utf8: whether a byte string is well-formed UTF-8.          *)
(***************************************************************************)
IsCont(b) == b \in 128..191

RECURSIVE IsUtf8(_)
IsUtf8(s) ==
    IF s = <<>> THEN TRUE
    ELSE LET b == s[1] IN
         IF b < 128 THEN IsUtf8(Tail(s))
         ELSE IF b \in 194..223
              THEN Len(s) >= 2 /\ IsCont(s[2]) /\ IsUtf8(Drop(s, 2))
         ELSE IF b \in 224..239
              THEN /\ Len(s) >= 3
                   /\ IF b = 224 THEN s[2] \in 160..191
                      ELSE IF b = 237 THEN s[2] \in 128..159
                      ELSE IsCont(s[2])
                   /\ IsCont(s[3])
                   /\ IsUtf8(Drop(s, 3))
         ELSE IF b \in 240..244
              THEN /\ Len(s) >= 4
                   /\ IF b = 240 THEN s[2] \in 144..191
                      ELSE IF b = 244 THEN s[2] \in 128..143
                      ELSE IsCont(s[2])
                   /\ IsCont(s[3])
                   /\ IsCont(s[4])
                   /\ IsUtf8(Drop(s, 4))
         ELSE FALSE

(***************************************************************************)
(* serde/utils.rs.  An encoding helper yields the bytes it appends to the  *)
(* buffer; a decoding helper takes the cursor and yields Ok(value, cursor),*)
(* Err(error) or Panic.                                                    *)
(***************************************************************************)
serialize_blob(val) == to_ne_bytes(UsizeOf(Len(val))) \o val

serialize_optional(val, value_serializer(_)) ==
    IF val.tag = "Some" THEN <<OPTIONAL_EXIST>> \o value_serializer(val.val)
    ELSE <<OPTIONAL_EMPTY>>

next_byte(bytes) ==
    IF bytes = <<>> THEN Err(ExpectedOneMoreByte)
    ELSE Ok(Head(bytes), Tail(bytes))

\* a plausible slip: the bytes are read from a copy of the cursor, which
\* stays where it was
next_bytes_of_a_copy(N, bytes) ==
    IF Len(bytes) < N
    THEN Err(ExpectedMoreBytes(UsizeOf(N), UsizeOf(Len(bytes))))
    ELSE Ok(SubSeq(bytes, 1, N), bytes)

\* index counts the bytes that were there when the cursor ran dry
next_bytes(N, bytes) ==
    IF Len(bytes) < N
    THEN Err(ExpectedMoreBytes(UsizeOf(N), UsizeOf(Len(bytes))))
    ELSE Ok(SubSeq(bytes, 1, N), Drop(bytes, N))

deserialize_f32(bytes) == MapOk(next_bytes(4, bytes), from_ne_bytes)

deserialize_usize(bytes) ==
    MapOk(next_bytes(target.usize_bytes, bytes), from_ne_bytes)

deserialize_u16(bytes) == MapOk(next_bytes(2, bytes), u16_from_ne_bytes)

deserialize_i8(bytes) == MapOk(next_bytes(1, bytes), i8_from_ne_bytes)

\* repeat_with(|| bytes.next().unwrap()).take(len): the unwrap panics as soon
\* as the cursor holds fewer than len bytes
deserialize_blob(bytes) ==
    Try(deserialize_usize(bytes),
        LAMBDA len, rest :
            IF UsizeCapped(len, Len(rest) + 1) > Len(rest) THEN Panic
            ELSE LET n == UsizeCapped(len, Len(rest))
                 IN  Ok(Take(rest, n), Drop(rest, n)))

deserialize_string(bytes) ==
    Try(deserialize_blob(bytes),
        LAMBDA str_bytes, rest :
            IF IsUtf8(str_bytes) THEN Ok(str_bytes, rest)
            ELSE Err(IllegalUtf8String))

\* deserialize_version taking the bytes as minor, middle, major
deserialize_version_minor_first(bytes) ==
    MapOk(next_bytes(3, bytes),
          LAMBDA values : Version_new(values[3], values[2], values[1]))

deserialize_version(bytes) ==
    MapOk(next_bytes(3, bytes),
          LAMBDA values : Version_new(values[1], values[2], values[3]))

deserialize_bool(bytes) ==
    Try(next_byte(bytes),
        LAMBDA b, rest :
            IF b = 0 THEN Ok(FALSE, rest)
            ELSE IF b = 1 THEN Ok(TRUE, rest)
            ELSE Err(IllegalBoolean(b)))

deserialize_optional(bytes, value_deserializer(_)) ==
    Try(deserialize_bool(bytes),
        LAMBDA present, rest :
            IF ~present THEN Ok(None, rest)
            ELSE MapOk(value_deserializer(rest), Some))

(***************************************************************************)
(* serde/serializer.rs: the implementations of Serializable.  Each yields  *)
(* the bytes that serialize(&self, buffer) appends to the buffer.          *)
(***************************************************************************)
\* impl_primitive_serialization!(u8)
u8_serialize(v) == <<v>>

\* impl_primitive_serialization!(i8)
i8_serialize(v) == i8_to_ne_bytes(v)

\* impl_primitive_serialization!(u16)
u16_serialize(v) == u16_to_ne_bytes(v)

\* impl_primitive_serialization!(u32)
u32_serialize(v) == to_ne_bytes(v)

\* impl_primitive_serialization!(usize)
usize_serialize(v) == to_ne_bytes(v)

\* impl_primitive_serialization!(f32)
f32_serialize(v) == to_ne_bytes(v)

Mac_serialize(mac) == <<mac[1], mac[2], mac[3], mac[4], mac[5], mac[6]>>

Version_serialize(v) == <<v.major, v.middle, v.minor>>

bool_serialize(b) == <<u8_from_bool(b)>>

\* NodeSettings_serialize with sbop written twice
NodeSettings_serialize_sbop_twice(s) ==
    bool_serialize(s.battery_ignore)
        \o bool_serialize(s.ota)
        \o u16_serialize(s.sleep_time)
        \o bool_serialize(s.sbop)
        \o bool_serialize(s.sbop)
        \o bool_serialize(s.mute_notifications)

NodeSettings_serialize(s) ==
    bool_serialize(s.battery_ignore)
        \o bool_serialize(s.ota)
        \o u16_serialize(s.sleep_time)
        \o bool_serialize(s.sbop)
        \o bool_serialize(s.mute_notifications)

\* impl Serializable for &[u8]
slice_serialize(val) == usize_serialize(UsizeOf(Len(val))) \o val

\* impl Serializable for &str, on the bytes of the string
str_serialize(val) == slice_serialize(val)

\* impl Serializable for Option<T>
Option_serialize(val, T_serialize(_)) ==
    IF val.tag = "None" THEN <<OPTIONAL_EMPTY>>
    ELSE <<OPTIONAL_EXIST>> \o T_serialize(val.val)

\* impl Serializable for Request
Request_serialize(req) ==
    u8_serialize(Request_type_id(req)) \o
    CASE req.type = "Ping" -> <<>>
      [] req.type = "Handshake" -> Mac_serialize(req.mac)
      [] req.type = "PostResults" ->
            f32_serialize(req.temperature)
                \o u8_serialize(req.humidity)
                \o Option_serialize(req.air_pressure, u16_serialize)
      [] req.type = "PostStats" ->
            f32_serialize(req.battery)
                \o str_serialize(req.wifi_ssid)
                \o i8_serialize(req.wifi_rssi)
      [] req.type = "SendNotification" -> str_serialize(req.content)
      [] req.type = "GetSettings" -> <<>>
      [] req.type = "UpdateCheck" -> Version_serialize(req.version)
      [] req.type = "NextUpdateChunk" -> usize_serialize(req.size)
      [] req.type = "ReportFirmwareUpdate" -> bool_serialize(req.good)
      [] req.type = "Bye" -> <<>>

\* impl Serializable for Response
Response_serialize(res) ==
    u8_serialize(Response_type_id(res)) \o
    CASE res.type = "Pong" -> <<>>
      [] res.type = "Ok" -> <<>>
      [] res.type = "Reject" -> <<>>
      [] res.type = "InvalidRequest" -> <<>>
      [] res.type = "RateLimitExceeded" -> <<>>
      [] res.type = "InternalServerError" -> <<>>
      [] res.type = "Stalling" -> <<>>
      [] res.type = "FirmwareUpToDate" -> <<>>
      [] res.type = "UpdateAvailable" -> Version_serialize(res.version)
      [] res.type = "UpdatePart" -> slice_serialize(res.blob)
      [] res.type = "UpdateEnd" -> <<>>
      [] res.type = "Settings" -> Option_serialize(res.settings, NodeSettings_serialize)

(***************************************************************************)
(* serde/deserializer.rs: the implementations of Deserializable.  Each     *)
(* takes the cursor and yields Ok(value, cursor) or Err(error).            *)
(***************************************************************************)
u8_deserialize(bytes) == next_byte(bytes)

i8_deserialize(bytes) ==
    MapOk(next_byte(bytes), LAMBDA value_byte : i8_from_ne_bytes(<<value_byte>>))

\* impl_primitive_deserialization!(u16)
u16_deserialize(bytes) == MapOk(next_bytes(2, bytes), u16_from_ne_bytes)

\* impl_primitive_deserialization!(u32)
u32_deserialize(bytes) == MapOk(next_bytes(4, bytes), from_ne_bytes)

\* impl_primitive_deserialization!(usize)
usize_deserialize(bytes) ==
    MapOk(next_bytes(target.usize_bytes, bytes), from_ne_bytes)

\* impl_primitive_deserialization!(f32)
f32_deserialize(bytes) == MapOk(next_bytes(4, bytes), from_ne_bytes)

\* bool_deserialize taking every byte other than 0 for true
bool_deserialize_nonzero_true(bytes) ==
    Try(next_byte(bytes), LAMBDA b, rest : Ok(b # 0, rest))

bool_deserialize(bytes) ==
    Try(next_byte(bytes),
        LAMBDA b, rest :
            IF b = 0 THEN Ok(FALSE, rest)
            ELSE IF b = 1 THEN Ok(TRUE, rest)
            ELSE Err(IllegalBoolean(b)))

Mac_deserialize(bytes) ==
    MapOk(next_bytes(6, bytes),
          LAMBDA o : Mac_new(o[1], o[2], o[3], o[4], o[5], o[6]))

Version_deserialize(bytes) == MapOk(next_bytes(3, bytes), Version_from)

NodeSettings_deserialize(bytes) ==
    Try(bool_deserialize(bytes), LAMBDA battery_ignore, r1 :
    Try(bool_deserialize(r1), LAMBDA ota, r2 :
    Try(u16_deserialize(r2), LAMBDA sleep_time, r3 :
    Try(bool_deserialize(r3), LAMBDA sbop, r4 :
    Try(bool_deserialize(r4), LAMBDA mute_notifications, r5 :
        Ok(NodeSettings(battery_ignore, ota, sleep_time, sbop,
                        mute_notifications), r5))))))

\* impl Deserializable for Box<[u8]>: take(len) stops at the end of the cursor
Box_slice_deserialize(bytes) ==
    Try(usize_deserialize(bytes),
        LAMBDA len, rest :
            LET n == UsizeCapped(len, Len(rest))
                blob == Take(rest, n)
            IN  IF UsizeOf(Len(blob)) # len
                THEN Err(ExpectedMoreBytes(len, UsizeOf(Len(blob))))
                ELSE Ok(blob, Drop(rest, n)))

\* impl Deserializable for Box<str>
Box_str_deserialize(bytes) ==
    Try(Box_slice_deserialize(bytes),
        LAMBDA blob, rest :
            IF IsUtf8(blob) THEN Ok(blob, rest) ELSE Err(IllegalUtf8String))

\* impl Deserializable for Option<T>
Option_deserialize(bytes, T_deserialize(_)) ==
    Try(bool_deserialize(bytes),
        LAMBDA present, rest :
            IF ~present THEN Ok(None, rest)
            ELSE MapOk(T_deserialize(rest), Some))

\* impl Deserializable for Request
Request_deserialize(bytes) ==
    Try(next_byte(bytes), LAMBDA req_type, b :
        CASE req_type = REQ_KIND_PING -> Ok(Ping, b)
          [] req_type = REQ_KIND_HANDSHAKE -> MapOk(Mac_deserialize(b), Handshake)
          [] req_type = REQ_KIND_POST_RESULTS ->
                Try(f32_deserialize(b), LAMBDA temperature, r1 :
                Try(u8_deserialize(r1), LAMBDA humidity, r2 :
                Try(Option_deserialize(r2, u16_deserialize), LAMBDA air_pressure, r3 :
                    Ok(PostResults(temperature, humidity, air_pressure), r3))))
          [] req_type = REQ_KIND_POST_STATS ->
                Try(f32_deserialize(b), LAMBDA battery, r1 :
                Try(Box_str_deserialize(r1), LAMBDA wifi_ssid, r2 :
                Try(i8_deserialize(r2), LAMBDA wifi_rssi, r3 :
                    Ok(PostStats(battery, wifi_ssid, wifi_rssi), r3))))
          [] req_type = REQ_KIND_SEND_NOTIFICATION ->
                MapOk(Box_str_deserialize(b), SendNotification)
          [] req_type = REQ_KIND_GET_SETTINGS -> Ok(GetSettings, b)
          [] req_type = REQ_KIND_UPDATE_CHECK ->
                MapOk(Version_deserialize(b), UpdateCheck)
          [] req_type = REQ_KIND_NEXT_UPDATE_CHUNK ->
                MapOk(usize_deserialize(b), NextUpdateChunk)
          [] req_type = REQ_KIND_REPORT_FWU ->
                MapOk(bool_deserialize(b), ReportFirmwareUpdate)
          [] req_type = REQ_KIND_BYE -> Ok(Bye, b)
          [] OTHER -> Err(IllegalRequestType(req_type)))

\* impl Deserializable for Response
Response_deserialize(bytes) ==
    Try(next_byte(bytes), LAMBDA res_type, b :
        CASE res_type = RES_KIND_PONG -> Ok(Pong, b)
          [] res_type = RES_KIND_OK -> Ok(ROk, b)
          [] res_type = RES_KIND_REJECT -> Ok(Reject, b)
          [] res_type = RES_KIND_INVALID_REQ -> Ok(InvalidRequest, b)
          [] res_type = RES_KIND_RLE -> Ok(RateLimitExceeded, b)
          [] res_type = RES_KIND_ISE -> Ok(InternalServerError, b)
          [] res_type = RES_KIND_STALLING -> Ok(Stalling, b)
          [] res_type = RES_KIND_FW_UTD -> Ok(FirmwareUpToDate, b)
          [] res_type = RES_KIND_FW_UAVAIL ->
                MapOk(Version_deserialize(b), UpdateAvailable)
          [] res_type = RES_KIND_FW_UPART ->
                MapOk(Box_slice_deserialize(b), UpdatePart)
          [] res_type = RES_KIND_FW_UEND -> Ok(UpdateEnd, b)
          [] res_type = RES_KIND_SETTINGS ->
                MapOk(Option_deserialize(b, NodeSettings_deserialize), Settings)
          [] OTHER -> Err(IllegalResponseType(res_type)))

(***************************************************************************)
(* serde/mod.rs: the free encoders.  Each yields Done(bytes appended) or   *)
(* Panic.                                                                  *)
(***************************************************************************)
\* fn serialize_request
serialize_request(req) ==
    LET id == <<Request_type_id(req)>> IN
    CASE req.type = "Ping" -> Done(id \o <<0>>)
      [] req.type = "Handshake" ->
            \* the array literal reads mac[0] .. mac[6]
            LET octets == [i \in 1..7 |-> Mac_index(req.mac, i - 1)] IN
            IF \E i \in 1..7 : octets[i].tag = "Panic" THEN Panic
            ELSE Done(id \o [i \in 1..7 |-> octets[i].val])
      [] req.type = "PostResults" ->
            Done(id \o to_ne_bytes(req.temperature)
                    \o <<req.humidity>>
                    \o serialize_optional(req.air_pressure, u16_to_ne_bytes))
      [] req.type = "PostStats" ->
            Done(id \o to_ne_bytes(req.battery)
                    \o serialize_blob(req.wifi_ssid)
                    \o i8_to_ne_bytes(req.wifi_rssi))
      [] req.type = "SendNotification" -> Done(id \o serialize_blob(req.content))
      [] req.type = "GetSettings" -> Done(id \o <<1>>)
      [] req.type = "UpdateCheck" ->
            Done(id \o <<req.version.major, req.version.middle, req.version.minor>>)
      [] req.type = "NextUpdateChunk" -> Done(id \o to_ne_bytes(req.size))
      [] req.type = "ReportFirmwareUpdate" -> Done(id \o <<u8_from_bool(req.good)>>)
      [] req.type = "Bye" -> Done(id \o <<2>>)

\* the closure handed to serialize_optional for Response::Settings
serialize_settings_value(val) ==
    <<u8_from_bool(val.battery_ignore)>>
        \o <<u8_from_bool(val.ota)>>
        \o u16_to_ne_bytes(val.sleep_time)
        \o <<u8_from_bool(val.sbop)>>
        \o <<u8_from_bool(val.sbop)>>
        \o <<u8_from_bool(val.mute_notifications)>>

\* fn serialize_response
serialize_response(res) ==
    LET id == <<Response_type_id(res)>> IN
    CASE res.type = "Pong" -> Done(id \o <<0>>)
      [] res.type = "Ok" -> Done(id \o <<1>>)
      [] res.type = "Reject" -> Done(id \o <<2>>)
      [] res.type = "InvalidRequest" -> Done(id \o <<3>>)
      [] res.type = "RateLimitExceeded" -> Done(id \o <<4>>)
      [] res.type = "InternalServerError" -> Done(id \o <<5>>)
      [] res.type = "Stalling" -> Done(id \o <<6>>)
      [] res.type = "FirmwareUpToDate" -> Done(id \o <<7>>)
      [] res.type = "UpdateAvailable" ->
            Done(id \o <<res.version.major, res.version.middle, res.version.minor>>)
      [] res.type = "UpdatePart" -> Done(id \o res.blob)
      [] res.type = "UpdateEnd" -> Done(id \o <<8>>)
      [] res.type = "Settings" ->
            Done(id \o serialize_optional(res.settings, serialize_settings_value))

\* pub fn serialize
serialize(msg) ==
    LET head == to_ne_bytes(msg.id) \o <<Message_type_id(msg)>>
        body == IF msg.content.kind = "Request"
                THEN serialize_request(msg.content.body)
                ELSE serialize_response(msg.content.body)
    IN  IF body = Panic THEN Panic ELSE Done(head \o body.bytes)

(***************************************************************************)
(* serde/mod.rs: the free decoders.  Each yields Some(value), None or      *)
(* Panic.                                                                  *)
(***************************************************************************)
\* bytes.next()?
NextOrNone(bytes, F(_, _)) ==
    IF bytes = <<>> THEN None ELSE F(Head(bytes), Tail(bytes))

\* std::array::from_fn(|_| bytes.next().unwrap()) for an array of N bytes
NextUnwrap(N, bytes, F(_, _)) ==
    IF Len(bytes) < N THEN Panic ELSE F(SubSeq(bytes, 1, N), Drop(bytes, N))

\* The free decoders bind the Result of a utils helper without `?` or unwrap.
\* What becomes of a helper's Err is not in the source; the two outcomes an
\* Option-returning function has for it are a panic (unwrap) and None (ok()?).
Unhandled == IF unhandled = "panic" THEN Panic ELSE None

Helper(r, F(_, _)) ==
    IF r.tag = "Ok" THEN F(r.val, r.rest)
    ELSE IF r.tag = "Panic" THEN Panic
    ELSE Unhandled

\* pub fn deserialize_request
deserialize_request(bytes) ==
    NextOrNone(bytes, LAMBDA req_type, b :
        CASE req_type = REQ_KIND_PING -> Some(Ping)
          [] req_type = REQ_KIND_HANDSHAKE ->
                NextOrNone(b, LAMBDA m0, b1 :
                NextOrNone(b1, LAMBDA m1, b2 :
                NextOrNone(b2, LAMBDA m2, b3 :
                NextOrNone(b3, LAMBDA m3, b4 :
                NextOrNone(b4, LAMBDA m4, b5 :
                NextOrNone(b5, LAMBDA m5, b6 :
                    Some(Handshake(Mac_new(m0, m1, m2, m3, m4, m5)))))))))
          [] req_type = REQ_KIND_POST_RESULTS ->
                NextUnwrap(4, b, LAMBDA temperature_bytes, r1 :
                NextOrNone(r1, LAMBDA humidity, r2 :
                NextOrNone(r2, LAMBDA tag, r3 :
                    IF tag = 0
                    THEN Some(PostResults(from_ne_bytes(temperature_bytes),
                                          humidity, None))
                    ELSE NextUnwrap(2, r3, LAMBDA air_pressure_bytes, r4 :
                            Some(PostResults(from_ne_bytes(temperature_bytes),
                                             humidity,
                                             Some(u16_from_ne_bytes(air_pressure_bytes))))))))
          [] req_type = REQ_KIND_POST_STATS ->
                Helper(deserialize_f32(b), LAMBDA battery, r1 :
                Helper(deserialize_string(r1), LAMBDA wifi_ssid, r2 :
                Helper(deserialize_i8(r2), LAMBDA wifi_rssi, r3 :
                    Some(PostStats(battery, wifi_ssid, wifi_rssi)))))
          [] req_type = REQ_KIND_SEND_NOTIFICATION ->
                Helper(deserialize_string(b), LAMBDA content, r1 :
                    Some(SendNotification(content)))
          [] req_type = REQ_KIND_GET_SETTINGS -> Some(GetSettings)
          [] req_type = REQ_KIND_UPDATE_CHECK ->
                Helper(deserialize_version(b), LAMBDA version, r1 :
                    Some(UpdateCheck(version)))
          [] req_type = REQ_KIND_NEXT_UPDATE_CHUNK ->
                Helper(deserialize_usize(b), LAMBDA amount, r1 :
                    Some(NextUpdateChunk(amount)))
          [] req_type = REQ_KIND_REPORT_FWU ->
                Helper(deserialize_bool(b), LAMBDA success, r1 :
                    Some(ReportFirmwareUpdate(success)))
          [] req_type = REQ_KIND_BYE -> Some(Bye)
          [] OTHER -> None)

\* pub fn deserialize_response
deserialize_response(bytes) ==
    NextOrNone(bytes, LAMBDA req_type, b :
        CASE req_type = RES_KIND_PONG -> Some(Pong)
          [] req_type = RES_KIND_OK -> Some(ROk)
          [] req_type = RES_KIND_REJECT -> Some(Reject)
          [] req_type = RES_KIND_INVALID_REQ -> Some(InvalidRequest)
          [] req_type = RES_KIND_RLE -> Some(RateLimitExceeded)
          [] req_type = RES_KIND_ISE -> Some(InternalServerError)
          [] req_type = RES_KIND_STALLING -> Some(Stalling)
          [] req_type = RES_KIND_FW_UTD -> Some(FirmwareUpToDate)
          [] req_type = RES_KIND_FW_UAVAIL ->
                Helper(deserialize_version(b), LAMBDA version, r1 :
                    Some(UpdateAvailable(version)))
          [] req_type = RES_KIND_FW_UPART ->
                Helper(deserialize_blob(b), LAMBDA blob, r1 :
                    Some(UpdatePart(blob)))
          [] req_type = RES_KIND_FW_UEND -> Some(UpdateEnd)
          [] req_type = RES_KIND_SETTINGS ->
                \* bytes.next().unwrap_or_default() == 0
                IF (IF b = <<>> THEN 0 ELSE Head(b)) = 0
                THEN Some(Settings(None))
                ELSE Helper(deserialize_bool(Tail(b)), LAMBDA battery_ignore, r1 :
                     Helper(deserialize_bool(r1), LAMBDA ota, r2 :
                     Helper(deserialize_u16(r2), LAMBDA sleep_time, r3 :
                     Helper(deserialize_bool(r3), LAMBDA sbop, r4 :
                     Helper(deserialize_bool(r4), LAMBDA mute_notifications, r5 :
                        Some(Settings(Some(NodeSettings(battery_ignore, ota,
                                sleep_time, sbop, mute_notifications)))))))))
          [] OTHER -> None)

\* pub fn deserialize
deserialize(bytes) ==
    \* bytes[..4] panics on a slice shorter than four bytes
    IF Len(bytes) < 4 THEN Panic
    ELSE LET msg_id == from_ne_bytes(SubSeq(bytes, 1, 4))
             msg_type == bytes[1]
             rest == Tail(bytes)
         IN  CASE msg_type = MSG_KIND_REQUEST ->
                    LET req == deserialize_request(rest) IN
                    IF req.tag = "Some" THEN Some(new_request(req.val, msg_id))
                    ELSE req
               [] msg_type = MSG_KIND_RESPONSE ->
                    LET res == deserialize_response(rest) IN
                    IF res.tag = "Some" THEN Some(new_response(res.val, msg_id))
                    ELSE res
               [] OTHER -> None

(***************************************************************************)
(* version.rs: Version::parse.  A text is a sequence of characters.        *)
(***************************************************************************)
DigitChars == {"0", "1", "2", "3", "4", "5", "6", "7", "8", "9"}

\* char::to_digit(10) of a decimal digit
to_digit(c) ==
    CASE c = "0" -> 0 [] c = "1" -> 1 [] c = "2" -> 2 [] c = "3" -> 3
      [] c = "4" -> 4 [] c = "5" -> 5 [] c = "6" -> 6 [] c = "7" -> 7
      [] c = "8" -> 8 [] c = "9" -> 9

\* the checked accumulation of u8::from_str over the digits: the value, or
\* None at the first character that is no digit or at the first overflow
RECURSIVE u8_accumulate(_, _)
u8_accumulate(digits, acc) ==
    IF digits = <<>> THEN Some(acc)
    ELSE IF Head(digits) \notin DigitChars THEN None
    ELSE LET next == acc * 10 + to_digit(Head(digits))
         IN  IF next > 255 THEN None ELSE u8_accumulate(Tail(digits), next)

\* u8::from_str(src).ok(): an empty text and a lone sign are errors, one
\* leading '+' is skipped, '-' is no sign of an unsigned type
u8_from_str(src) ==
    IF src = <<>> THEN None
    ELSE IF Len(src) = 1 /\ Head(src) \in {"+", "-"} THEN None
    ELSE IF Head(src) = "+" THEN u8_accumulate(Tail(src), 0)
    ELSE u8_accumulate(src, 0)

\* str::splitn(n, '.'): at most n parts, the last one holding the rest
RECURSIVE splitn(_, _)
splitn(n, s) ==
    IF n = 1 \/ ~(\E i \in 1..Len(s) : s[i] = ".") THEN <<s>>
    ELSE LET dot == CHOOSE i \in 1..Len(s) :
                        s[i] = "." /\ \A j \in 1..(i - 1) : s[j] # "."
         IN  <<SubSeq(s, 1, dot - 1)>> \o splitn(n - 1, SubSeq(s, dot + 1, Len(s)))

\* Version::parse
Version_parse(text) ==
    LET parts == splitn(3, text) IN
    IF Len(parts) < 1 THEN None
    ELSE LET major == u8_from_str(parts[1]) IN
    IF major.tag = "None" THEN None
    ELSE IF Len(parts) < 2 THEN None
    ELSE LET middle == u8_from_str(parts[2]) IN
    IF middle.tag = "None" THEN None
    ELSE IF Len(parts) < 3 THEN None
    ELSE LET minor == u8_from_str(parts[3]) IN
    IF minor.tag = "None" THEN None
    ELSE Some(Version_new(major.val, middle.val, minor.val))

\* char::from_digit(d, 10)
from_digit(d) ==
    CASE d = 0 -> "0" [] d = 1 -> "1" [] d = 2 -> "2" [] d = 3 -> "3"
      [] d = 4 -> "4" [] d = 5 -> "5" [] d = 6 -> "6" [] d = 7 -> "7"
      [] d = 8 -> "8" [] d = 9 -> "9"

\* a plausible slip: every component is written with three digits ("{:03}")
u8_to_string_padded(n) ==
    <<from_digit(n \div 100), from_digit((n \div 10) % 10), from_digit(n % 10)>>

\* "{}" of a u8: its decimal digits, most significant first, no sign and no
\* leading zero
RECURSIVE u8_to_string(_)
u8_to_string(n) ==
    IF n < 10 THEN <<from_digit(n)>>
    ELSE u8_to_string(n \div 10) \o <<from_digit(n % 10)>>

\* a plausible slip: the components are written in the reverse order
Version_to_string_minor_first(v) ==
    u8_to_string(v.minor) \o <<".">> \o u8_to_string(v.middle)
        \o <<".">> \o u8_to_string(v.major)

\* Display for Version: "{}.{}.{}" of major, middle, minor
Version_to_string(v) ==
    u8_to_string(v.major) \o <<".">> \o u8_to_string(v.middle)
        \o <<".">> \o u8_to_string(v.minor)

(***************************************************************************)
(* The codec of one field: T::serialize / T::deserialize for the type T of *)
(* the field, and the helper of serde/utils.rs for it where there is one.  *)
(***************************************************************************)
FieldTypes ==
    {"bool", "u8", "i8", "u16", "u32", "usize", "f32", "Mac", "Version",
     "NodeSettings", "blob", "str", "Option<u16>", "Option<NodeSettings>"}

\* <T as Serializable>::serialize
T_serialize(ty, v) ==
    CASE ty = "bool" -> bool_serialize(v)
      [] ty = "u8" -> u8_serialize(v)
      [] ty = "i8" -> i8_serialize(v)
      [] ty = "u16" -> u16_serialize(v)
      [] ty = "u32" -> u32_serialize(v)
      [] ty = "usize" -> usize_serialize(v)
      [] ty = "f32" -> f32_serialize(v)
      [] ty = "Mac" -> Mac_serialize(v)
      [] ty = "Version" -> Version_serialize(v)
      [] ty = "NodeSettings" -> NodeSettings_serialize(v)
      [] ty = "blob" -> slice_serialize(v)
      [] ty = "str" -> str_serialize(v)
      [] ty = "Option<u16>" -> Option_serialize(v, u16_serialize)
      [] ty = "Option<NodeSettings>" -> Option_serialize(v, NodeSettings_serialize)

\* <T as Deserializable>::deserialize
T_deserialize(ty, bytes) ==
    CASE ty = "bool" -> bool_deserialize(bytes)
      [] ty = "u8" -> u8_deserialize(bytes)
      [] ty = "i8" -> i8_deserialize(bytes)
      [] ty = "u16" -> u16_deserialize(bytes)
      [] ty = "u32" -> u32_deserialize(bytes)
      [] ty = "usize" -> usize_deserialize(bytes)
      [] ty = "f32" -> f32_deserialize(bytes)
      [] ty = "Mac" -> Mac_deserialize(bytes)
      [] ty = "Version" -> Version_deserialize(bytes)
      [] ty = "NodeSettings" -> NodeSettings_deserialize(bytes)
      [] ty = "blob" -> Box_slice_deserialize(bytes)
      [] ty = "str" -> Box_str_deserialize(bytes)
      [] ty = "Option<u16>" -> Option_deserialize(bytes, u16_deserialize)
      [] ty = "Option<NodeSettings>" ->
            Option_deserialize(bytes, NodeSettings_deserialize)

\* the field types serde/utils.rs has an encoding helper for
UtilsSerializeTypes == {"blob", "str", "Option<u16>", "Option<NodeSettings>"}

\* utils::serialize_blob / utils::serialize_optional as serde/mod.rs calls them
utils_serialize(ty, v) ==
    CASE ty = "blob" -> serialize_blob(v)
      [] ty = "str" -> serialize_blob(v)
      [] ty = "Option<u16>" -> serialize_optional(v, u16_to_ne_bytes)
      [] ty = "Option<NodeSettings>" -> serialize_optional(v, serialize_settings_value)

\* the field types serde/utils.rs has a decoding helper for
UtilsDeserializeTypes ==
    {"bool", "i8", "u16", "usize", "f32", "Version", "blob", "str", "Option<u16>"}

\* utils::deserialize_<type>
utils_deserialize(ty, bytes) ==
    CASE ty = "bool" -> deserialize_bool(bytes)
      [] ty = "i8" -> deserialize_i8(bytes)
      [] ty = "u16" -> deserialize_u16(bytes)
      [] ty = "usize" -> deserialize_usize(bytes)
      [] ty = "f32" -> deserialize_f32(bytes)
      [] ty = "Version" -> deserialize_version(bytes)
      [] ty = "blob" -> deserialize_blob(bytes)
      [] ty = "str" -> deserialize_string(bytes)
      [] ty = "Option<u16>" -> deserialize_optional(bytes, deserialize_u16)

(***************************************************************************)
(* The values the model draws its inputs from.                             *)
(***************************************************************************)
\* message ids: 0, 1, u32::MAX, and the two ids whose memory image starts
\* with a message-kind byte followed by a variant discriminant
Ids ==
    {Digits(0, 4), Digits(1, 4), <<255, 255, 255, 255>>,
     from_ne_bytes(<<MSG_KIND_REQUEST, REQ_KIND_PING, 0, 0>>),
     from_ne_bytes(<<MSG_KIND_RESPONSE, RES_KIND_SETTINGS, 0, 0>>)}

Macs == {Mac_new(0, 1, 2, 3, 4, 5), Mac_new(255, 254, 253, 252, 251, 250)}

\* the bit patterns of 0.0 and of 45.78
F32s == {<<0, 0, 0, 0>>, <<184, 30, 55, 66>>}

\* "", "a" and "é" as UTF-8
Texts == {<<>>, <<97>>, <<195, 169>>}

Versions == {Version_new(1, 2, 6), Version_new(255, 0, 7)}

AirPressures == {None, Some(258), Some(65535)}

Usizes == {UsizeOf(0), UsizeOf(256), [i \in 1..target.usize_bytes |-> 255]}

Blobs == SeqsUpTo({0, 255}, MaxBlobLen)

SettingsValues ==
    {const_default, NodeSettings(TRUE, FALSE, 258, FALSE, TRUE),
     NodeSettings(TRUE, TRUE, 16, FALSE, TRUE)}

Requests ==
    {Ping, GetSettings, Bye}
        \cup {Handshake(m) : m \in Macs}
        \cup {PostResults(t, 50, a) : t \in F32s, a \in AirPressures}
        \cup {PostStats(b, s, -15) : b \in F32s, s \in Texts}
        \cup {SendNotification(s) : s \in Texts}
        \cup {UpdateCheck(v) : v \in Versions}
        \cup {NextUpdateChunk(n) : n \in Usizes}
        \cup {ReportFirmwareUpdate(g) : g \in BOOLEAN}

Responses ==
    {Pong, ROk, Reject, InvalidRequest, RateLimitExceeded, InternalServerError,
     Stalling, FirmwareUpToDate, UpdateEnd, Settings(None)}
        \cup {UpdateAvailable(v) : v \in Versions}
        \cup {UpdatePart(b) : b \in Blobs}
        \cup {Settings(Some(s)) : s \in SettingsValues}

\* bytes appended behind an encoding
ExtraBytes == {0, 255}

\* bytes written over a byte of an encoding: no message kind, no discriminant
CorruptBytes == {9, 255}

\* bytes of the inputs that no encoder produced
RawBytes == {0, 1, 2, 4, 6, 9, 12, 51, 255}

\* longest byte string handed to the decoder of one field that no encoder produced
MaxFieldRawLen == 3

\* bytes of those byte strings: the two booleans and the two optional tags,
\* bytes that are neither, and the first byte of a two-byte UTF-8 character
FieldRawBytes == {0, 1, 2, 195, 255}

\* the values of a field of type ty
FieldValues(ty) ==
    CASE ty = "bool" -> BOOLEAN
      [] ty = "u8" -> {0, 50, 255}
      [] ty = "i8" -> {-128, -15, 127}
      [] ty = "u16" -> {0, 258, 65535}
      [] ty = "u32" -> Ids
      [] ty = "usize" -> Usizes
      [] ty = "f32" -> F32s
      [] ty = "Mac" -> Macs
      [] ty = "Version" -> Versions
      [] ty = "NodeSettings" -> SettingsValues
      [] ty = "blob" -> Blobs
      [] ty = "str" -> Texts
      [] ty = "Option<u16>" -> AirPressures
      [] ty = "Option<NodeSettings>" -> {None} \cup {Some(s) : s \in SettingsValues}

\* longest text of free shape handed to Version::parse
MaxVersionTextLen == 4

\* the characters of those texts
VersionChars == {"0", "1", "5", ".", "+", "-", "a"}

\* the groups that the longer texts handed to Version::parse are joined from
VersionGroups ==
    {<<>>, <<"0">>, <<"0", "7">>, <<"2", "5", "5">>, <<"2", "5", "6">>,
     <<"+", "1">>, <<"-", "1">>, <<"4", "a">>}

\* the groups joined by '.'
RECURSIVE Join(_)
Join(groups) ==
    IF Len(groups) = 1 THEN groups[1]
    ELSE groups[1] \o <<".">> \o Join(Tail(groups))

\* longest list of groups joined into a text
MaxVersionGroups == 4

\* the components of the versions that are rendered: one, two and three
\* digits, the least and the greatest
DisplayComponents == {0, 7, 10, 99, 100, 255}

DisplayVersions ==
    {Version_new(a, b, c) : a, b, c \in DisplayComponents}

VersionTexts ==
    SeqsUpTo(VersionChars, MaxVersionTextLen)
        \cup {Join(g) : g \in SeqsUpTo(VersionGroups, MaxVersionGroups) \ {<<>>}}

(***************************************************************************)
(* The state machine: a value is built, an encoder runs on it, the bytes   *)
(* reach a decoder whole, cut short, extended or with a byte overwritten   *)
(* (or bytes come from elsewhere), and a decoder runs on them.             *)
(***************************************************************************)
Idle ==
    /\ value = NoValue
    /\ encoder = "none"
    /\ buffer = NoValue
    /\ input = <<>>
    /\ channel = [how |-> "none", n |-> 0]
    /\ decoder = "none"
    /\ result = NoValue
    /\ pc = "idle"

Init ==
    /\ target \in Targets
    /\ unhandled \in {"none", "panic"}
    /\ Idle

\* Message::new_request
NewRequest ==
    /\ pc = "idle"
    /\ \E req \in Requests, id \in Ids :
            value' = [is |-> "Message", v |-> new_request(req, id)]
    /\ pc' = "built"
    /\ UNCHANGED <<target, unhandled, encoder, buffer, input, channel, decoder, result>>

\* Message::new_response
NewResponse ==
    /\ pc = "idle"
    /\ \E res \in Responses, id \in Ids :
            value' = [is |-> "Message", v |-> new_response(res, id)]
    /\ pc' = "built"
    /\ UNCHANGED <<target, unhandled, encoder, buffer, input, channel, decoder, result>>

\* a bare Request or Response is handed to a body encoder
TakeBody ==
    /\ pc = "idle"
    /\ \/ \E req \in Requests : value' = [is |-> "Request", v |-> req]
       \/ \E res \in Responses : value' = [is |-> "Response", v |-> res]
    /\ pc' = "built"
    /\ UNCHANGED <<target, unhandled, encoder, buffer, input, channel, decoder, result>>

\* serde::serialize
Serialize ==
    /\ pc = "built"
    /\ value.is = "Message"
    /\ encoder' = "serialize"
    /\ buffer' = serialize(value.v)
    /\ pc' = "encoded"
    /\ UNCHANGED <<target, unhandled, value, input, channel, decoder, result>>

\* serde::serialize_request, on an empty buffer
SerializeRequest ==
    /\ pc = "built"
    /\ value.is = "Request"
    /\ encoder' = "serialize_request"
    /\ buffer' = serialize_request(value.v)
    /\ pc' = "encoded"
    /\ UNCHANGED <<target, unhandled, value, input, channel, decoder, result>>

\* serde::serialize_response, on an empty buffer
SerializeResponse ==
    /\ pc = "built"
    /\ value.is = "Response"
    /\ encoder' = "serialize_response"
    /\ buffer' = serialize_response(value.v)
    /\ pc' = "encoded"
    /\ UNCHANGED <<target, unhandled, value, input, channel, decoder, result>>

\* <Request as Serializable>::serialize, on an empty buffer
RequestSerialize ==
    /\ pc = "built"
    /\ value.is = "Request"
    /\ encoder' = "Request::serialize"
    /\ buffer' = Done(Request_serialize(value.v))
    /\ pc' = "encoded"
    /\ UNCHANGED <<target, unhandled, value, input, channel, decoder, result>>

\* <Response as Serializable>::serialize, on an empty buffer
ResponseSerialize ==
    /\ pc = "built"
    /\ value.is = "Response"
    /\ encoder' = "Response::serialize"
    /\ buffer' = Done(Response_serialize(value.v))
    /\ pc' = "encoded"
    /\ UNCHANGED <<target, unhandled, value, input, channel, decoder, result>>

\* the decoder is handed exactly the encoder's bytes
Deliver ==
    /\ pc = "encoded"
    /\ buffer.tag = "Done"
    /\ input' = buffer.bytes
    /\ channel' = [how |-> "whole", n |-> 0]
    /\ pc' = "ready"
    /\ UNCHANGED <<target, unhandled, value, encoder, buffer, decoder, result>>

\* the decoder is handed a strict prefix of the encoder's bytes, of length n
Truncate ==
    /\ pc = "encoded"
    /\ buffer.tag = "Done"
    /\ \E k \in 0..(Len(buffer.bytes) - 1) :
            /\ input' = Take(buffer.bytes, k)
            /\ channel' = [how |-> "prefix", n |-> k]
    /\ pc' = "ready"
    /\ UNCHANGED <<target, unhandled, value, encoder, buffer, decoder, result>>

\* the decoder is handed the encoder's bytes followed by n more bytes
AppendExtra ==
    /\ pc = "encoded"
    /\ buffer.tag = "Done"
    /\ \E t \in SeqsUpTo(ExtraBytes, MaxExtra) \ {<<>>} :
            /\ input' = buffer.bytes \o t
            /\ channel' = [how |-> "extended", n |-> Len(t)]
    /\ pc' = "ready"
    /\ UNCHANGED <<target, unhandled, value, encoder, buffer, decoder, result>>

\* the decoder is handed the encoder's bytes with the byte at offset n overwritten
Corrupt ==
    /\ pc = "encoded"
    /\ buffer.tag = "Done"
    /\ \E i \in 1..Len(buffer.bytes), b \in CorruptBytes :
            /\ buffer.bytes[i] # b
            /\ input' = [buffer.bytes EXCEPT ![i] = b]
            /\ channel' = [how |-> "corrupted", n |-> i - 1]
    /\ pc' = "ready"
    /\ UNCHANGED <<target, unhandled, value, encoder, buffer, decoder, result>>

\* a decoder is handed bytes that no encoder produced
Inject ==
    /\ pc = "idle"
    /\ \E is \in {"Message", "Request", "Response"},
          raw \in SeqsUpTo(RawBytes, MaxRawLen) :
            /\ value' = [is |-> is, v |-> NoValue]
            /\ input' = raw
    /\ channel' = [how |-> "raw", n |-> 0]
    /\ pc' = "ready"
    /\ UNCHANGED <<target, unhandled, encoder, buffer, decoder, result>>

\* serde::deserialize
Deserialize ==
    /\ pc = "ready"
    /\ value.is = "Message"
    /\ decoder' = "deserialize"
    /\ result' = deserialize(input)
    /\ pc' = "decoded"
    /\ UNCHANGED <<target, unhandled, value, encoder, buffer, input, channel>>

\* serde::deserialize_request
DeserializeRequest ==
    /\ pc = "ready"
    /\ value.is = "Request"
    /\ decoder' = "deserialize_request"
    /\ result' = deserialize_request(input)
    /\ pc' = "decoded"
    /\ UNCHANGED <<target, unhandled, value, encoder, buffer, input, channel>>

\* serde::deserialize_response
DeserializeResponse ==
    /\ pc = "ready"
    /\ value.is = "Response"
    /\ decoder' = "deserialize_response"
    /\ result' = deserialize_response(input)
    /\ pc' = "decoded"
    /\ UNCHANGED <<target, unhandled, value, encoder, buffer, input, channel>>

\* <Request as Deserializable>::deserialize, on a cursor over the input
RequestDeserialize ==
    /\ pc = "ready"
    /\ value.is = "Request"
    /\ decoder' = "Request::deserialize"
    /\ result' = Request_deserialize(input)
    /\ pc' = "decoded"
    /\ UNCHANGED <<target, unhandled, value, encoder, buffer, input, channel>>

\* <Response as Deserializable>::deserialize, on a cursor over the input
ResponseDeserialize ==
    /\ pc = "ready"
    /\ value.is = "Response"
    /\ decoder' = "Response::deserialize"
    /\ result' = Response_deserialize(input)
    /\ pc' = "decoded"
    /\ UNCHANGED <<target, unhandled, value, encoder, buffer, input, channel>>

\* a value of one field type is handed to its encoder
TakeField ==
    /\ pc = "idle"
    /\ \E ty \in FieldTypes : \E v \in FieldValues(ty) :
            value' = [is |-> ty, v |-> v]
    /\ pc' = "built"
    /\ UNCHANGED <<target, unhandled, encoder, buffer, input, channel, decoder, result>>

\* <T as Serializable>::serialize, on an empty buffer
FieldSerialize ==
    /\ pc = "built"
    /\ value.is \in FieldTypes
    /\ encoder' = "Serializable::serialize"
    /\ buffer' = Done(T_serialize(value.is, value.v))
    /\ pc' = "encoded"
    /\ UNCHANGED <<target, unhandled, value, input, channel, decoder, result>>

\* utils::serialize_blob / utils::serialize_optional, on an empty buffer
UtilsSerialize ==
    /\ pc = "built"
    /\ value.is \in UtilsSerializeTypes
    /\ encoder' = "utils::serialize"
    /\ buffer' = Done(utils_serialize(value.is, value.v))
    /\ pc' = "encoded"
    /\ UNCHANGED <<target, unhandled, value, input, channel, decoder, result>>

\* the decoder of one field is handed bytes that no encoder produced
InjectField ==
    /\ pc = "idle"
    /\ \E ty \in FieldTypes, raw \in SeqsUpTo(FieldRawBytes, MaxFieldRawLen) :
            /\ value' = [is |-> ty, v |-> NoValue]
            /\ input' = raw
    /\ channel' = [how |-> "raw", n |-> 0]
    /\ pc' = "ready"
    /\ UNCHANGED <<target, unhandled, encoder, buffer, decoder, result>>

\* <T as Deserializable>::deserialize, on a cursor over the input
FieldDeserialize ==
    /\ pc = "ready"
    /\ value.is \in FieldTypes
    /\ decoder' = "Deserializable::deserialize"
    /\ result' = T_deserialize(value.is, input)
    /\ pc' = "decoded"
    /\ UNCHANGED <<target, unhandled, value, encoder, buffer, input, channel>>

\* utils::deserialize_<type>, on a cursor over the input
UtilsDeserialize ==
    /\ pc = "ready"
    /\ value.is \in UtilsDeserializeTypes
    /\ decoder' = "utils::deserialize"
    /\ result' = utils_deserialize(value.is, input)
    /\ pc' = "decoded"
    /\ UNCHANGED <<target, unhandled, value, encoder, buffer, input, channel>>

\* Version::parse
VersionParse ==
    /\ pc = "idle"
    /\ \E t \in VersionTexts :
            /\ value' = [is |-> "text", v |-> t]
            /\ result' = Version_parse(t)
    /\ decoder' = "Version::parse"
    /\ pc' = "decoded"
    /\ UNCHANGED <<target, unhandled, encoder, buffer, input, channel>>

\* the accessors of a Message: request, response and id on a reference,
\* take_request and take_response on the value
MessageAccessors ==
    /\ pc = "built"
    /\ value.is = "Message"
    /\ decoder' = "Message::accessors"
    /\ result' = [tag |-> "Accessors",
                  request |-> Message_request(value.v),
                  response |-> Message_response(value.v),
                  take_request |-> Message_take_request(value.v),
                  take_response |-> Message_take_response(value.v),
                  id |-> Message_id(value.v)]
    /\ pc' = "decoded"
    /\ UNCHANGED <<target, unhandled, value, encoder, buffer, input, channel>>

\* Version::to_string (Display) of a Version
VersionToString ==
    /\ pc = "idle"
    /\ \E v \in DisplayVersions :
            /\ value' = [is |-> "version", v |-> v]
            /\ buffer' = Done(Version_to_string(v))
    /\ encoder' = "Version::to_string"
    /\ pc' = "rendered"
    /\ UNCHANGED <<target, unhandled, input, channel, decoder, result>>

\* Version::parse of the text that Version::to_string returned
VersionParseRendered ==
    /\ pc = "rendered"
    /\ value.is = "version"
    /\ input' = buffer.bytes
    /\ channel' = [how |-> "whole", n |-> 0]
    /\ decoder' = "Version::parse"
    /\ result' = Version_parse(buffer.bytes)
    /\ pc' = "decoded"
    /\ UNCHANGED <<target, unhandled, value, encoder, buffer>>

\* Version::to_string of the Version that Version::parse returned
VersionToStringParsed ==
    /\ pc = "decoded"
    /\ value.is = "text"
    /\ decoder = "Version::parse"
    /\ result.tag = "Some"
    /\ encoder' = "Version::to_string"
    /\ buffer' = Done(Version_to_string(result.val))
    /\ pc' = "rendered"
    /\ UNCHANGED <<target, unhandled, value, input, channel, decoder, result>>

\* the call is over (it returned or panicked); the next one starts afresh
Reset ==
    /\ \/ pc = "decoded"
       \/ pc = "encoded" /\ buffer.tag = "Panic"
       \/ pc = "rendered" /\ value.is = "text"
    /\ value' = NoValue
    /\ encoder' = "none"
    /\ buffer' = NoValue
    /\ input' = <<>>
    /\ channel' = [how |-> "none", n |-> 0]
    /\ decoder' = "none"
    /\ result' = NoValue
    /\ pc' = "idle"
    /\ UNCHANGED <<target, unhandled>>

Next ==
    \/ NewRequest
    \/ NewResponse
    \/ TakeBody
    \/ Serialize
    \/ SerializeRequest
    \/ SerializeResponse
    \/ RequestSerialize
    \/ ResponseSerialize
    \/ Deliver
    \/ Truncate
    \/ AppendExtra
    \/ Corrupt
    \/ Inject
    \/ Deserialize
    \/ DeserializeRequest
    \/ DeserializeResponse
    \/ RequestDeserialize
    \/ ResponseDeserialize
    \/ TakeField
    \/ FieldSerialize
    \/ UtilsSerialize
    \/ InjectField
    \/ FieldDeserialize
    \/ UtilsDeserialize
    \/ MessageAccessors
    \/ VersionParse
    \/ VersionToString
    \/ VersionParseRendered
    \/ VersionToStringParsed
    \/ Reset

Spec == Init /\ [][Next]_vars

(***************************************************************************)
(* The properties.                                                         *)
(***************************************************************************)
\* serde::serialize ran on a Message and serde::deserialize ran on the bytes
\* that the channel made of its output
MessageDecoded ==
    pc = "decoded" /\ encoder = "serialize" /\ decoder = "deserialize"

\* a trait encoder ran on a Request or Response and the trait decoder of the
\* same type ran on the bytes that the channel made of its output
TraitDecoded ==
    /\ pc = "decoded"
    /\ \/ encoder = "Request::serialize" /\ decoder = "Request::deserialize"
       \/ encoder = "Response::serialize" /\ decoder = "Response::deserialize"

DecodeErrorKinds ==
    {"ExpectedOneMoreByte", "ExpectedMoreBytes", "IllegalBoolean",
     "IllegalMessageType", "IllegalRequestType", "IllegalResponseType",
     "IllegalUtf8String", "ExtraDataLeft"}

FieldlessTypes ==
    {"Ping", "GetSettings", "Bye", "Pong", "Ok", "Reject", "InvalidRequest",
     "RateLimitExceeded", "InternalServerError", "Stalling", "FirmwareUpToDate",
     "UpdateEnd"}

\* C1: deserializing the bytes that serializing a Message m produced succeeds
\* and returns a Message equal to m.
C1_MessageRoundTrip ==
    (MessageDecoded /\ channel.how = "whole") => result = Some(value.v)

\* C2: for every Request and every Response, the trait decoder run on exactly
\* the bytes the trait encoder appended returns Ok of an equal value.
C2_BodyRoundTrip ==
    (TraitDecoded /\ channel.how = "whole") =>
        (result.tag = "Ok" /\ result.val = value.v)

\* a Settings(Some(..)) response went through the trait codec and came back
C2_Witness ==
    /\ TraitDecoded
    /\ channel.how = "whole"
    /\ value.v.type = "Settings"
    /\ value.v.settings.tag = "Some"
    /\ value.v.settings.val.sbop # value.v.settings.val.mute_notifications
    /\ result.tag = "Ok"

\* C3: decoding the encoding of a Message followed by n >= 1 more bytes fails
\* with ExtraDataLeft(n); no Message is returned while input is left unread.
C3_TrailingDataRejected ==
    (MessageDecoded /\ channel.how = "extended") =>
        result = Err(ExtraDataLeft(UsizeOf(channel.n)))

\* C4: decoding a strict prefix of the encoding of a Message fails with
\* ExpectedOneMoreByte or ExpectedMoreBytes; it neither panics nor returns a
\* Message.
C4_TruncationSafety ==
    (MessageDecoded /\ channel.how = "prefix") =>
        (result.tag = "Err"
            /\ result.err.kind \in {"ExpectedOneMoreByte", "ExpectedMoreBytes"})

\* C5: on every byte sequence the Message decoder returns a Message or one of
\* the variants of the decode error; it neither panics nor reports a failure
\* as an unspecified "no value".
C5_DecodeTotal ==
    (pc = "decoded" /\ decoder = "deserialize") =>
        \/ result.tag \in {"Some", "Ok"}
        \/ result.tag = "Err" /\ result.err.kind \in DecodeErrorKinds

\* C6: serializing a Message completes and returns a byte sequence, whatever
\* its variant, fields and id; no variant reaches a panic.
C6_EncodeTotal ==
    (pc = "encoded" /\ encoder = "serialize") => buffer.tag = "Done"

\* C7: decoding a Request whose first byte is no request discriminant b fails
\* with IllegalRequestType(b), decoding a Response whose first byte is no
\* response discriminant b fails with IllegalResponseType(b), whatever bytes
\* follow; an empty input fails with ExpectedOneMoreByte.
C7_IllegalDiscriminant ==
    (pc = "decoded" /\ value.is \in {"Request", "Response"}) =>
        /\ input = <<>> => result = Err(ExpectedOneMoreByte)
        /\ (value.is = "Request" /\ input # <<>>
                /\ input[1] \notin REQ_KIND_PING..REQ_KIND_BYE)
            => result = Err(IllegalRequestType(input[1]))
        /\ (value.is = "Response" /\ input # <<>>
                /\ input[1] \notin RES_KIND_PONG..RES_KIND_SETTINGS)
            => result = Err(IllegalResponseType(input[1]))

\* C8: the encoder writes kind byte 4 exactly for a Request and 6 exactly for
\* a Response, and the decoder rejects every other kind byte b (the byte at
\* offset 4) with IllegalMessageType(b).
C8_MessageKindByte ==
    /\ (pc = "encoded" /\ encoder = "serialize" /\ buffer.tag = "Done") =>
            /\ buffer.bytes[5] = MSG_KIND_REQUEST <=> value.v.content.kind = "Request"
            /\ buffer.bytes[5] = MSG_KIND_RESPONSE <=> value.v.content.kind = "Response"
    /\ (pc = "decoded" /\ decoder = "deserialize" /\ Len(input) >= 5
            /\ input[5] \notin {MSG_KIND_REQUEST, MSG_KIND_RESPONSE})
        => result = Err(IllegalMessageType(input[5]))

\* the Message that the layout [id: 4 bytes][kind: 1 byte][variant ...] gives:
\* the id of offsets 0..3, the kind of offset 4, the variant from offset 5 on
LayoutDecode(bytes) ==
    LET id == from_ne_bytes(SubSeq(bytes, 1, 4))
        body == IF bytes[5] = MSG_KIND_REQUEST
                THEN deserialize_request(Drop(bytes, 5))
                ELSE deserialize_response(Drop(bytes, 5))
    IN  IF body.tag # "Some" THEN body
        ELSE IF bytes[5] = MSG_KIND_REQUEST THEN Some(new_request(body.val, id))
        ELSE Some(new_response(body.val, id))

\* C9: the encoder writes the id at offsets 0..3, the kind byte at offset 4
\* and the variant from offset 5 on; the decoder reads the id from offsets
\* 0..3, the kind byte from offset 4 and hands the bytes from offset 5 on to
\* the variant decoder of that kind.
C9_EnvelopeLayout ==
    /\ (pc = "encoded" /\ encoder = "serialize" /\ buffer.tag = "Done") =>
            /\ SubSeq(buffer.bytes, 1, 4) = to_ne_bytes(value.v.id)
            /\ buffer.bytes[5] = Message_type_id(value.v)
            /\ buffer.bytes[6] =
                    IF value.v.content.kind = "Request"
                    THEN Request_type_id(value.v.content.body)
                    ELSE Response_type_id(value.v.content.body)
    /\ (pc = "decoded" /\ decoder = "deserialize" /\ Len(input) >= 5
            /\ input[5] \in {MSG_KIND_REQUEST, MSG_KIND_RESPONSE})
        => result = LayoutDecode(input)

\* C10: a Message whose variant has no fields is encoded in exactly 6 bytes,
\* and every variant without fields encodes its body as the single
\* discriminant byte.
C10_FieldlessLength ==
    (pc = "encoded" /\ buffer.tag = "Done") =>
        /\ (value.is = "Message" /\ value.v.content.body.type \in FieldlessTypes)
            => Len(buffer.bytes) = 6
        /\ (value.is \in {"Request", "Response"} /\ value.v.type \in FieldlessTypes)
            => /\ Len(buffer.bytes) = 1
               /\ buffer.bytes[1] \in REQ_KIND_PING..RES_KIND_SETTINGS

\* the bytes handed to a decoder of one field of type ty have been decoded
FieldDecoded(ty) ==
    /\ pc = "decoded"
    /\ value.is = ty
    /\ decoder \in {"Deserializable::deserialize", "utils::deserialize"}

\* a value of one field of type ty has been encoded
FieldEncoded(ty) ==
    /\ pc = "encoded"
    /\ value.is = ty
    /\ encoder \in {"Serializable::serialize", "utils::serialize"}

\* C11: reading a bool consumes exactly one byte; byte 0 yields false, byte 1
\* yields true, every other byte b yields IllegalBoolean(b); the encoding of
\* a bool is the single byte 0 or 1.
C11_BooleanDecoding ==
    /\ (FieldDecoded("bool") /\ input # <<>>) =>
            result = (IF input[1] = 0 THEN Ok(FALSE, Tail(input))
                      ELSE IF input[1] = 1 THEN Ok(TRUE, Tail(input))
                      ELSE Err(IllegalBoolean(input[1])))
    /\ FieldEncoded("bool") =>
            buffer = Done(IF value.v THEN <<1>> ELSE <<0>>)

\* a byte that is neither 0 nor 1 was decoded as a bool and rejected
C11_Witness ==
    /\ FieldDecoded("bool")
    /\ input # <<>>
    /\ input[1] = 255
    /\ Len(input) > 1
    /\ result = Err(IllegalBoolean(255))

\* the type of the value inside an optional
Inner(ty) == IF ty = "Option<u16>" THEN "u16" ELSE "NodeSettings"

\* C12: an empty optional is encoded as the tag byte 0 alone, a present one
\* as the tag byte 1 followed by the encoding of the inner value; decoding
\* reads the tag first, and an empty optional consumes exactly one byte and
\* leaves the bytes after it unread.
C12_OptionalFraming ==
    \A ty \in {"Option<u16>", "Option<NodeSettings>"} :
        /\ FieldEncoded(ty) =>
                /\ buffer.tag = "Done"
                /\ value.v.tag = "None" => buffer.bytes = <<0>>
                /\ value.v.tag = "Some" =>
                        /\ Head(buffer.bytes) = 1
                        /\ Tail(buffer.bytes) =
                                IF encoder = "Serializable::serialize"
                                THEN T_serialize(Inner(ty), value.v.val)
                                ELSE IF ty = "Option<u16>"
                                THEN u16_to_ne_bytes(value.v.val)
                                ELSE serialize_settings_value(value.v.val)
        /\ (FieldDecoded(ty) /\ input # <<>>) =>
                /\ input[1] = 0 => result = Ok(None, Tail(input))
                /\ input[1] = 1 =>
                        LET inner == IF decoder = "Deserializable::deserialize"
                                     THEN T_deserialize(Inner(ty), Tail(input))
                                     ELSE deserialize_u16(Tail(input))
                        IN  result = (IF inner.tag = "Ok"
                                      THEN Ok(Some(inner.val), inner.rest)
                                      ELSE inner)

\* an empty optional followed by more bytes was decoded, and a present one
C12_Witness ==
    /\ FieldDecoded("Option<u16>")
    /\ channel.how = "extended"
    /\ value.v.tag = "None"
    /\ result = Ok(None, Tail(input))
    /\ Len(input) = 3

\* the length that a blob's encoding starts with, as the usize it encodes
BlobLength(bytes) == from_ne_bytes(Take(bytes, target.usize_bytes))

\* the bytes behind the length of a blob's encoding
BlobRest(bytes) == Drop(bytes, target.usize_bytes)

\* the length says more bytes than there are behind it
BlobShort(bytes) ==
    UsizeCapped(BlobLength(bytes), Len(BlobRest(bytes)) + 1) > Len(BlobRest(bytes))

\* the bytes of a blob that is not short
BlobBytes(bytes) ==
    Take(BlobRest(bytes), UsizeCapped(BlobLength(bytes), Len(BlobRest(bytes))))

\* the bytes behind a blob that is not short
BlobAfter(bytes) ==
    Drop(BlobRest(bytes), UsizeCapped(BlobLength(bytes), Len(BlobRest(bytes))))

\* C13: a blob, the payload of Response::UpdatePart included, is encoded as
\* its length L in platform width followed by its L bytes; decoding reads L
\* and then exactly L bytes, and with only k < L bytes left it fails with
\* ExpectedMoreBytes{expected: L, got: k} and does not panic.
C13_BlobFraming ==
    /\ FieldEncoded("blob") =>
            buffer = Done(to_ne_bytes(UsizeOf(Len(value.v))) \o value.v)
    /\ (pc = "encoded"
            /\ encoder \in {"serialize_response", "Response::serialize"}
            /\ value.v.type = "UpdatePart") =>
            buffer = Done(<<49>> \o to_ne_bytes(UsizeOf(Len(value.v.blob)))
                               \o value.v.blob)
    /\ (FieldDecoded("blob") /\ Len(input) >= target.usize_bytes) =>
            result = (IF BlobShort(input)
                      THEN Err(ExpectedMoreBytes(BlobLength(input),
                                                 UsizeOf(Len(BlobRest(input)))))
                      ELSE Ok(BlobBytes(input), BlobAfter(input)))

\* C14: a text is decoded as a blob that is then validated as UTF-8: a short
\* blob gives ExpectedMoreBytes, a complete blob that is not UTF-8 gives
\* IllegalUtf8String, and only a complete valid blob gives the text.
C14_TextDecoding ==
    (FieldDecoded("str") /\ Len(input) >= target.usize_bytes) =>
        IF BlobShort(input)
        THEN result.tag = "Err" /\ result.err.kind = "ExpectedMoreBytes"
        ELSE IF ~IsUtf8(BlobBytes(input))
        THEN result = Err(IllegalUtf8String)
        ELSE result = Ok(BlobBytes(input), BlobAfter(input))

\* the number of bytes of a primitive of fixed width
Width(ty) ==
    CASE ty = "u16" -> 2
      [] ty = "u32" -> 4
      [] ty = "usize" -> target.usize_bytes
      [] ty = "f32" -> 4
      [] ty = "Mac" -> 6
      [] ty = "Version" -> 3

\* C15: decoding a primitive of width N > 1 from k < N bytes fails with
\* ExpectedMoreBytes{expected: N, got: k}; decoding a single required byte
\* (u8, i8, bool) from an empty source fails with ExpectedOneMoreByte.
C15_PrimitiveUnderflow ==
    /\ \A ty \in {"u16", "u32", "usize", "f32", "Mac", "Version"} :
            (FieldDecoded(ty) /\ Len(input) < Width(ty)) =>
                result = Err(ExpectedMoreBytes(UsizeOf(Width(ty)), UsizeOf(Len(input))))
    /\ \A ty \in {"u8", "i8", "bool"} :
            (FieldDecoded(ty) /\ input = <<>>) => result = Err(ExpectedOneMoreByte)

\* the six bytes of a NodeSettings value: battery_ignore, ota, sleep_time in
\* two bytes, sbop, mute_notifications
SettingsLayout(s) ==
    <<IF s.battery_ignore THEN 1 ELSE 0, IF s.ota THEN 1 ELSE 0>>
        \o to_ne_bytes(<<s.sleep_time % 256, s.sleep_time \div 256>>)
        \o <<IF s.sbop THEN 1 ELSE 0, IF s.mute_notifications THEN 1 ELSE 0>>

\* C16: a NodeSettings value is encoded as exactly 6 bytes, battery_ignore,
\* ota, sleep_time (2 bytes), sbop, mute_notifications, each written once;
\* the decoder reads the same fields in the same order; the body of
\* Response::Settings(Some(..)) is 1 discriminant + 1 tag + these 6 bytes.
C16_NodeSettingsLayout ==
    /\ FieldEncoded("NodeSettings") => buffer = Done(SettingsLayout(value.v))
    /\ (pc = "encoded"
            /\ encoder \in {"serialize_response", "Response::serialize"}
            /\ value.v.type = "Settings"
            /\ value.v.settings.tag = "Some") =>
            buffer = Done(<<51, 1>> \o SettingsLayout(value.v.settings.val))
    /\ (FieldDecoded("NodeSettings") /\ Len(input) >= 6
            /\ \A i \in {1, 2, 5, 6} : input[i] \in {0, 1}) =>
            result = Ok(NodeSettings(input[1] = 1, input[2] = 1,
                                     u16_from_ne_bytes(SubSeq(input, 3, 4)),
                                     input[5] = 1, input[6] = 1),
                        Drop(input, 6))

\* C17: a Mac is encoded as its 6 octets in index order with no length, so
\* the body of a Handshake is 1 + 6 = 7 bytes, and the decoder reads exactly
\* 6 bytes for it.
C17_MacLayout ==
    /\ FieldEncoded("Mac") => buffer = Done(value.v)
    /\ (pc = "encoded"
            /\ encoder \in {"serialize_request", "Request::serialize"}
            /\ value.v.type = "Handshake") =>
            buffer = Done(<<11>> \o value.v.mac)
    /\ (FieldDecoded("Mac") /\ Len(input) >= 6) =>
            result = Ok(SubSeq(input, 1, 6), Drop(input, 6))

\* C18: a Version is encoded as exactly 3 bytes, major, middle, minor, and
\* decoding the bytes b0 b1 b2 yields the Version with major = b0,
\* middle = b1, minor = b2, for every byte triple.
C18_VersionLayout ==
    /\ FieldEncoded("Version") =>
            buffer = Done(<<value.v.major, value.v.middle, value.v.minor>>)
    /\ (FieldDecoded("Version") /\ Len(input) >= 3) =>
            result = Ok([major |-> input[1], middle |-> input[2], minor |-> input[3]],
                        Drop(input, 3))

\* three bytes that no encoder produced were decoded as a Version
C18_Witness ==
    /\ FieldDecoded("Version")
    /\ channel.how = "raw"
    /\ input = <<255, 0, 2>>
    /\ result.tag = "Ok"
    /\ result.val.major = 255
    /\ result.val.minor = 2

\* C19: type_id maps distinct Request variants to distinct bytes and distinct
\* Response variants to distinct bytes; request discriminants lie in 10..30,
\* response discriminants in 40..60, the message-kind bytes 4 and 6 in
\* neither band; and a decoder that returns a variant returns the one whose
\* type_id is the first byte of its input.
C19_Discriminants ==
    \* the table of discriminants is the same in every state: it is looked at
    \* where no call is in progress
    /\ pc = "idle" =>
        /\ \A t1, t2 \in RequestTypes :
                Request_type_id([type |-> t1]) = Request_type_id([type |-> t2])
                    => t1 = t2
        /\ \A t1, t2 \in ResponseTypes :
                Response_type_id([type |-> t1]) = Response_type_id([type |-> t2])
                    => t1 = t2
        /\ \A t \in RequestTypes : Request_type_id([type |-> t]) \in 10..30
        /\ \A t \in ResponseTypes : Response_type_id([type |-> t]) \in 40..60
        /\ MSG_KIND_REQUEST = 4 /\ MSG_KIND_RESPONSE = 6
    /\ (pc = "decoded" /\ decoder \in {"deserialize_request", "Request::deserialize"}
            /\ result.tag \in {"Some", "Ok"}) =>
            Request_type_id(result.val) = input[1]
    /\ (pc = "decoded" /\ decoder \in {"deserialize_response", "Response::deserialize"}
            /\ result.tag \in {"Some", "Ok"}) =>
            Response_type_id(result.val) = input[1]

\* the last request discriminant was decoded to the last variant
C19_Witness ==
    /\ pc = "decoded"
    /\ decoder = "deserialize_request"
    /\ input # <<>>
    /\ input[1] = 19
    /\ result = Some(Bye)

\* the number that a group of decimal digits denotes
RECURSIVE DecimalValue(_)
DecimalValue(g) ==
    IF g = <<>> THEN 0
    ELSE DecimalValue(SubSeq(g, 1, Len(g) - 1)) * 10 + to_digit(g[Len(g)])

\* the positions of '.' in a text
Dots(s) == {i \in 1..Len(s) : s[i] = "."}

\* the three groups of a text with two '.'
Group(s, n) ==
    LET d1 == CHOOSE i \in Dots(s) : \A j \in Dots(s) : i <= j
        d2 == CHOOSE i \in Dots(s) : \A j \in Dots(s) : i >= j
    IN  CASE n = 1 -> SubSeq(s, 1, d1 - 1)
          [] n = 2 -> SubSeq(s, d1 + 1, d2 - 1)
          [] n = 3 -> SubSeq(s, d2 + 1, Len(s))

\* exactly three groups of decimal digits separated by '.', each denoting a
\* number in 0..255
IsVersionText(s) ==
    /\ Cardinality(Dots(s)) = 2
    /\ \A i \in (1..Len(s)) \ Dots(s) : s[i] \in DigitChars
    /\ \A n \in 1..3 : Group(s, n) # <<>> /\ DecimalValue(Group(s, n)) <= 255

\* C20: Version::parse returns a value only for a text of exactly three
\* groups of decimal digits separated by '.', each denoting a number in
\* 0..255, and then the Version of these numbers; every other text (fewer or
\* more groups, an empty group, a sign or a letter in a group, a group above
\* 255) returns None.
C20_VersionParseShape ==
    (pc = "decoded" /\ decoder = "Version::parse" /\ value.is = "text") =>
        result = (IF IsVersionText(value.v)
                  THEN Some([major |-> DecimalValue(Group(value.v, 1)),
                             middle |-> DecimalValue(Group(value.v, 2)),
                             minor |-> DecimalValue(Group(value.v, 3))])
                  ELSE None)

\* C21: for every Version v, Version::parse of the text that v renders to,
\* "{major}.{middle}.{minor}", returns Some(v).
C21_VersionTextRoundTrip ==
    (pc = "decoded" /\ value.is = "version" /\ encoder = "Version::to_string"
        /\ decoder = "Version::parse") =>
        result = Some(value.v)

\* a Version with a one-digit, a two-digit and a three-digit component was
\* rendered and parsed back
C21_Witness ==
    /\ pc = "decoded"
    /\ value.is = "version"
    /\ value.v = Version_new(255, 7, 10)
    /\ decoder = "Version::parse"
    /\ input = <<"2", "5", "5", ".", "7", ".", "1", "0">>
    /\ result = Some(Version_new(255, 7, 10))

\* a group without its '+' sign
StripSign(g) == IF g # <<>> /\ Head(g) = "+" THEN Tail(g) ELSE g

\* a group of digits without its leading zeros
RECURSIVE StripZeros(_)
StripZeros(g) ==
    IF Len(g) > 1 /\ Head(g) = "0" THEN StripZeros(Tail(g)) ELSE g

\* a text of three groups with every group stripped of sign and leading zeros
Canonical(s) ==
    StripZeros(StripSign(Group(s, 1))) \o <<".">>
        \o StripZeros(StripSign(Group(s, 2))) \o <<".">>
        \o StripZeros(StripSign(Group(s, 3)))

\* C22 as stated: for every text s that Version::parse accepts, rendering
\* the parsed Version reproduces s character for character.
C22_TextReproduced ==
    (pc = "rendered" /\ value.is = "text") => buffer.bytes = value.v

\* C22 amended: for every text s that Version::parse accepts, rendering the
\* parsed Version gives s with every group stripped of a leading '+' and of
\* its leading zeros, so s is reproduced exactly when it has neither.
C22_TextCanonicalised ==
    (pc = "rendered" /\ value.is = "text") =>
        /\ buffer.bytes = Canonical(value.v)
        /\ (\A n \in 1..3 :
                LET g == Group(value.v, n)
                IN  Head(g) # "+" /\ (Len(g) > 1 => Head(g) # "0"))
                => buffer.bytes = value.v

\* a text with a leading zero was parsed and rendered to a different text
C22_Witness ==
    /\ pc = "rendered"
    /\ value.is = "text"
    /\ value.v = <<"0", "7", ".", "0", ".", "2", "5", "5">>
    /\ result = Some(Version_new(7, 0, 255))
    /\ buffer = Done(<<"7", ".", "0", ".", "2", "5", "5">>)

\* C23: a Message holds exactly one body: exactly one of request() and
\* response() returns a value; after new_request(r, id) request() is Some(r),
\* response() is None and id() is id; after new_response(s, id) response()
\* is Some(s), request() is None and id() is id; take_request and
\* take_response return the same body as request and response.
C23_ExactlyOneBody ==
    /\ pc = "idle" =>
        /\ \A r \in Requests, id \in Ids :
                LET msg == new_request(r, id)
                IN  /\ Message_request(msg) = Some(r)
                    /\ Message_response(msg) = None
                    /\ Message_id(msg) = id
        /\ \A r \in Responses, id \in Ids :
                LET msg == new_response(r, id)
                IN  /\ Message_response(msg) = Some(r)
                    /\ Message_request(msg) = None
                    /\ Message_id(msg) = id
    /\ (pc = "decoded" /\ decoder = "Message::accessors") =>
        /\ (result.request.tag = "Some") # (result.response.tag = "Some")
        /\ result.request.tag \in {"Some", "None"}
        /\ result.response.tag \in {"Some", "None"}
        /\ result.take_request = result.request
        /\ result.take_response = result.response
        /\ result.id = value.v.id
        /\ \A body \in {result.request, result.response} :
                body.tag = "Some" => body.val = value.v.content.body

\* the accessors ran on a response with the greatest id
C23_Witness ==
    /\ pc = "decoded"
    /\ decoder = "Message::accessors"
    /\ result.request = None
    /\ result.take_response = Some(Settings(None))
    /\ result.id = <<255, 255, 255, 255>>

\* the position in the input of the tag byte of the optional field that the
\* decoder which ran has to read, 0 when it reads none: behind the
\* discriminant, the temperature and the humidity of PostResults, behind the
\* discriminant of Settings, and first in an optional field decoded alone
OptionalTagPosition ==
    CASE decoder \in {"deserialize_request", "Request::deserialize"}
            /\ input # <<>> /\ input[1] = REQ_KIND_POST_RESULTS -> 7
      [] decoder \in {"deserialize_response", "Response::deserialize"}
            /\ input # <<>> /\ input[1] = RES_KIND_SETTINGS -> 2
      [] decoder \in {"Deserializable::deserialize", "utils::deserialize"}
            /\ value.is \in {"Option<u16>", "Option<NodeSettings>"} -> 1
      [] OTHER -> 0

\* C25: in every decoder of an optional field (the air pressure of
\* PostResults, the payload of Settings), a tag byte that is neither 0 nor 1
\* makes decoding fail with IllegalBoolean(tag), so a tag of 2..255 is never
\* taken for 'present', and a missing tag byte is never taken for 'empty':
\* decoding fails with ExpectedOneMoreByte.
C25_StrictOptionalTag ==
    (pc = "decoded" /\ OptionalTagPosition > 0) =>
        LET at == OptionalTagPosition IN
        /\ (Len(input) >= at /\ input[at] \notin {OPTIONAL_EMPTY, OPTIONAL_EXIST})
                => result = Err(IllegalBoolean(input[at]))
        /\ Len(input) = at - 1 => result = Err(ExpectedOneMoreByte)

\* C26: for every Request or Response v and every byte sequence t, decoding
\* from a cursor at the start of encode(v) followed by t returns v and leaves
\* exactly t unread.
C26_ExactConsumption ==
    (TraitDecoded /\ channel.how \in {"whole", "extended"}) =>
        /\ result.tag = "Ok"
        /\ result.val = value.v
        /\ input = buffer.bytes \o result.rest
        /\ Len(result.rest) = channel.n

\* an UpdatePart with a blob was decoded with two more bytes behind it, which
\* were left unread
C26_Witness ==
    /\ TraitDecoded
    /\ channel = [how |-> "extended", n |-> 2]
    /\ value.v = UpdatePart(<<255, 0>>)
    /\ result = Ok(UpdatePart(<<255, 0>>), <<0, 255>>)

\* C27: the two encoders agree: serialize_request appends the same bytes as
\* <Request as Serializable>::serialize, and serialize_response the same
\* bytes as <Response as Serializable>::serialize.
C27_EncodersAgree ==
    /\ (pc = "encoded" /\ encoder = "serialize_request") =>
            buffer = Done(Request_serialize(value.v))
    /\ (pc = "encoded" /\ encoder = "serialize_response") =>
            buffer = Done(Response_serialize(value.v))

\* what a free body decoder returned, next to what the trait decoder returns
\* on the same bytes: a value exactly when the trait decoder succeeds, and
\* then an equal one, no value exactly when it returns an error, and no panic
DecodersAgree(free, trait) ==
    /\ free.tag \in {"Some", "None"}
    /\ free.tag = "Some" <=> trait.tag = "Ok"
    /\ free.tag = "None" <=> trait.tag = "Err"
    /\ free.tag = "Some" => free.val = trait.val

\* C28: the two body decoders agree: deserialize_request(b) returns a
\* Request exactly when <Request as Deserializable>::deserialize succeeds on
\* b, with an equal value, and returns no value exactly when the trait
\* decoder returns an error; likewise for responses; neither panics where
\* the other returns.
C28_DecodersAgree ==
    /\ (pc = "decoded" /\ decoder = "deserialize_request") =>
            DecodersAgree(result, Request_deserialize(input))
    /\ (pc = "decoded" /\ decoder = "deserialize_response") =>
            DecodersAgree(result, Response_deserialize(input))

\* every byte of the input was read by the free decoder that ran: cut short
\* anywhere, the input gives another outcome
ReadToTheEnd ==
    \A k \in 0..(Len(input) - 1) :
        IF decoder = "deserialize_request"
        THEN deserialize_request(Take(input, k)) # result
        ELSE deserialize_response(Take(input, k)) # result

\* C29: whenever decoding b as a Request or a Response succeeds with the
\* value v and consumes all of b, encoding v yields exactly b, so no two
\* different byte sequences decode to the same value.
C29_CanonicalEncoding ==
    /\ (pc = "decoded" /\ decoder = "Request::deserialize"
            /\ result.tag = "Ok" /\ result.rest = <<>>) =>
            Request_serialize(result.val) = input
    /\ (pc = "decoded" /\ decoder = "Response::deserialize"
            /\ result.tag = "Ok" /\ result.rest = <<>>) =>
            Response_serialize(result.val) = input
    /\ (pc = "decoded" /\ decoder = "deserialize_request"
            /\ result.tag = "Some" /\ ReadToTheEnd) =>
            Request_serialize(result.val) = input
    /\ (pc = "decoded" /\ decoder = "deserialize_response"
            /\ result.tag = "Some" /\ ReadToTheEnd) =>
            Response_serialize(result.val) = input

\* the outcome of encoding and decoding the message that was encoded, with
\* another id
WithId(id) ==
    LET bytes == serialize([value.v EXCEPT !.id = id])
    IN  IF bytes.tag = "Done" THEN deserialize(bytes.bytes) ELSE bytes

\* C30: for two encoded messages that differ only in their id, decoding
\* gives the same outcome apart from the id: both succeed, with the same
\* content and each with its own id, or both fail in the same way; the bytes
\* of the id never decide which kind or variant is decoded.
C30_IdIndependence ==
    (MessageDecoded /\ channel.how = "whole") =>
        \A id \in Ids :
            LET other == WithId(id) IN
            /\ other.tag = result.tag
            /\ result.tag = "Some" =>
                /\ other.val.content = result.val.content
                /\ other.val.id = id
                /\ result.val.id = value.v.id

=============================================================================
